---- MODULE Spec2Model ----
(***************************************************************************)
(* Model of the metriqs agent core: the Collector intake handle, the Db    *)
(* ingestion buffer / aggregation cycle / time-series store of             *)
(* src/db/mod.rs, and the pure group / aggregate functions of              *)
(* src/db/aggregate.rs.                                                    *)
(***************************************************************************)
EXTENDS Integers, Sequences, FiniteSets, TLC

\* ------------------------------------------------------------------ bounds
\* Total number of events the producers submit in one behaviour.
MaxEvents == 2
\* Number of aggregation cycles started in one behaviour.
MaxCycles == 2
\* Length of the batch handed to the pure group / aggregate functions.
MaxBatch == 2
\* Subscribers registered, batches published, and the capacity of a
\* subscriber channel.
MaxSubscribers == 2
MaxPublishes == 3
Capacity == 1
\* Number of newline-separated lines in one StatsD text.
MaxLines == 2
\* Histogram::from is applied to every sample count up to this one (and to
\* the counts of LargeSizes).
MaxSamples == 4

\* ------------------------------------------------------- program constants
\* i32 is the value type of every metric.
Int32Max == 2147483647
Int32Min == -Int32Max - 1

\* ------------------------------------------------------------ value domains
Kinds == {"Count", "Gauge", "Histogram"}

\* Dimension lists are Vec<(Atom, Atom)>: ordered sequences of pairs.
DimAB == << <<"env", "prod">>, <<"host", "a">> >>
DimBA == << <<"host", "a">>, <<"env", "prod">> >>

\* Identifiers (name, dimensions) the producers use.
IdLat == <<"lat", DimAB>>
IdLatSwapped == <<"lat", DimBA>>
Ids == {IdLat, IdLatSwapped}
PipeIds == {IdLat}
\* A directly submitted name that is also a name the Histogram arm derives:
\* format!("{}{}", "lat", ".count").
IdLatCount == <<"lat.count", DimAB>>
SuffixedIds == {IdLat, IdLatCount}

Values == {-3, Int32Max}
PipeValues == {1, Int32Max}
\* Readings of the wall clock / producer-assigned timestamps.
Times == {1, 2}

\* ------------------------------------------------------------ small helpers
Max(a, b) == IF a >= b THEN a ELSE b

RECURSIVE SeqMax(_)
SeqMax(s) == IF Len(s) = 1 THEN s[1] ELSE Max(s[1], SeqMax(Tail(s)))

\* Exact integers beyond the 32-bit range: <<hi, lo>> stands for
\* hi * 65536 + lo with 0 <= lo < 65536.
WideOf(n) == <<n \div 65536, n % 65536>>

WideAdd(x, y) == <<x[1] + y[1] + ((x[2] + y[2]) \div 65536), (x[2] + y[2]) % 65536>>

WideNeg(x) == IF x[2] = 0 THEN <<-x[1], 0>> ELSE <<-x[1] - 1, 65536 - x[2]>>

\* The exact (unbounded) sum of a sequence of integers, summed by halves.
RECURSIVE WideSum(_)
WideSum(s) ==
    IF s = <<>> THEN WideOf(0)
    ELSE IF Len(s) = 1 THEN WideOf(s[1])
    ELSE WideAdd(WideSum(SubSeq(s, 1, Len(s) \div 2)),
                 WideSum(SubSeq(s, (Len(s) \div 2) + 1, Len(s))))

\* x \div n for a wide x >= 0, as <<q1, q2>> standing for q1 * 65536 + q2.
WideDivNat(x, n) == <<x[1] \div n, (((x[1] % n) * 65536) + x[2]) \div n>>

Range(s) == {s[i] : i \in 1..Len(s)}

\* All orders in which a HashMap may hand out the keys of S.
Orders(S) ==
    {o \in [1..Cardinality(S) -> S] : \A i, j \in 1..Cardinality(S) : i # j => o[i] # o[j]}

\* a + b leaves the i32 range.
AddOverflows(a, b) ==
    \/ b > 0 /\ a > Int32Max - b
    \/ b < 0 /\ a < Int32Min - b

\* a + b on i32 as a release build performs it (two's complement wrap).
WrappingAdd(a, b) ==
    IF b > 0 /\ a > Int32Max - b THEN (a - Int32Max - 1) + (b - Int32Max - 1)
    ELSE IF b < 0 /\ a < Int32Min - b THEN (a + Int32Max + 1) + (b + Int32Max + 1)
    ELSE a + b

\* ------------------------------------------------------------------- state
VARIABLES
    overflow_checks,     \* build profile: TRUE = arithmetic overflow panics
    channel,             \* mpsc queue from collection_sender to collection_receiver
    db_alive,            \* the Db (and with it the Receiver) still exists
    producer,            \* "running" | "panicked": the thread calling Collector::push
    last_push,           \* result of the last Sender::send seen by push
    collected_metrics,   \* Db.collected_metrics: events awaiting aggregation
    buffer_lock,         \* holder of the collected_metrics mutex
    aggregated_metrics,  \* Db.aggregated_metrics: key -> Vec<(SystemTime, i32)>
    store_lock,          \* holder of the aggregated_metrics mutex
    pc_recv,             \* position of the thread running Db::recv
    metrics,             \* the batch Db::recv took off the channel
    pc_agg,              \* position of the thread running Db::aggregate
    now,                 \* SystemTime::now() read at the start of the cycle
    drained,             \* local collected_metrics of Db::aggregate
    grouped,             \* local grouped map of Db::aggregate
    aggregated,          \* local aggregated Vec of Db::aggregate, not yet stored
    next_uid,            \* history: number of events submitted so far + 1
    cycle,               \* history: number of aggregation cycles started
    drain_log,           \* history: the batch each cycle's drain returned
    collect_log,         \* history: uids that reached Db::collect, in order
    series_cycle,        \* history: key -> cycle that appended each entry
    pc_pure,             \* position of the caller of aggregate::group / aggregate
    input,               \* the Vec<CollectedMetric> (timestamped) given to group
    grouped_metrics,     \* GroupedMetrics returned by aggregate::group
    output,              \* result of aggregate::aggregate
    db_output,           \* result of the rollup loop of Db::aggregate on input
    pc_hist,             \* position of the caller of Histogram::from
    samples,             \* the &Vec<i32> given to Histogram::from
    hist_out,            \* the Histogram it returned, or its panic
    pc_parse,            \* position of the caller of parse_metrics
    parse_in,            \* the lines making up the text given to parse_metrics
    parse_out,           \* the Result it returned
    transport,           \* "udp" | "tcp": the StatsD listener in use
    wire,                \* payloads sent by clients and not yet read from the socket
    sent,                \* history: every payload the clients sent
    socket_thread,       \* the thread reading the socket: "running" or how it ended
    line_channel,        \* mpsc queue of Strings from the socket thread to listen
    subscribers,         \* the registry: one bounded channel per subscriber
    published            \* number of batches published so far

vars == <<overflow_checks, channel, db_alive, producer, last_push,
          collected_metrics, buffer_lock, aggregated_metrics, store_lock,
          pc_recv, metrics, pc_agg, now, drained, grouped, aggregated,
          next_uid, cycle, drain_log, collect_log, series_cycle,
          pc_pure, input, grouped_metrics, output, db_output,
          pc_hist, samples, hist_out,
          pc_parse, parse_in, parse_out,
          transport, wire, sent, socket_thread, line_channel,
          subscribers, published>>

aggVars == <<pc_agg, now, drained, grouped, aggregated, cycle, drain_log>>
recvVars == <<pc_recv, metrics, collect_log>>
storeVars == <<aggregated_metrics, store_lock, series_cycle>>
pushVars == <<producer, last_push, next_uid>>
pureVars == <<pc_pure, input, grouped_metrics, output, db_output>>
dbVars == <<channel, db_alive, collected_metrics, buffer_lock>>
histVars == <<pc_hist, samples, hist_out>>
parseVars == <<pc_parse, parse_in, parse_out>>
listenVars == <<transport, wire, sent, socket_thread, line_channel>>
fanVars == <<subscribers, published>>
extVars == <<histVars, parseVars, listenVars, fanVars>>

\* ----------------------------------------------------------- metric model
\* CollectedMetric::{Count, Gauge, Histogram}(Id, i32); uid is a history tag.
CollectedMetric(kind, id, value, uid) ==
    [kind |-> kind, id |-> id, value |-> value, uid |-> uid]

\* AggregatedMetric::{Count, Gauge}(Id, i32)
AggregatedMetric(kind, id, value) == [kind |-> kind, id |-> id, value |-> value]

\* suffix_id: format!("{}{}", name, suffix) with the dimensions copied.
suffix_id(id, suffix) == <<id[1] \o suffix, id[2]>>

\* entry(key).or_insert_with(|| vec![]).push(v) on a HashMap<_, Vec<_>>.
EntryPush(map, key, v) ==
    [k \in (DOMAIN map) \cup {key} |->
        IF k = key
            THEN Append(IF key \in DOMAIN map THEN map[key] ELSE <<>>, v)
            ELSE map[k]]

\* The grouping loop of Db::aggregate: Group::<variant>(id) -> Vec<i32>.
RECURSIVE DbGroupFrom(_, _)
DbGroupFrom(map, ms) ==
    IF ms = <<>> THEN map
    ELSE DbGroupFrom(EntryPush(map, <<Head(ms).kind, Head(ms).id>>, Head(ms).value),
                     Tail(ms))

\* Variant: the map starts out with a Count group that has no values yet.
DbGroupSeeded(ms) == DbGroupFrom([key \in {<<"Count", IdLat>>} |-> <<>>], ms)

DbGroup(ms) == DbGroupFrom(<<>>, ms)

\* values.iter().fold(0, |memo, value| memo + value) over i32: the wrapped
\* result, and whether some addition left the i32 range.
RECURSIVE FoldAdd(_, _)
FoldAdd(memo, values) ==
    IF values = <<>> THEN [value |-> memo, overflowed |-> FALSE]
    ELSE LET r == FoldAdd(WrappingAdd(memo, Head(values)), Tail(values))
         IN  [value |-> r.value,
              overflowed |-> r.overflowed \/ AddOverflows(memo, Head(values))]

CountFold(values) == FoldAdd(0, values)

\* values.iter().max().unwrap_or(&0)
RECURSIVE IterMax(_, _)
IterMax(best, values) ==
    IF values = <<>> THEN best
    ELSE IterMax(IF Head(values) >= best THEN Head(values) ELSE best, Tail(values))

\* Variant: last-writer-wins, the value of the latest arrival.
GaugeLast(values) == IF values = <<>> THEN 0 ELSE values[Len(values)]

GaugeMax(values) == IF values = <<>> THEN 0 ELSE IterMax(Head(values), Tail(values))

\* sorted.sort_by(|a, b| a.cmp(b)): insertion into an ascending sequence.
RECURSIVE InsertSorted(_, _)
InsertSorted(s, v) ==
    IF s = <<>> THEN <<v>>
    ELSE IF v < Head(s) THEN <<v>> \o s
    ELSE <<Head(s)>> \o InsertSorted(Tail(s), v)

\* Variant: the samples left in arrival order.
ArrivalOrder(values) == values

\* The stable merge of two ascending runs: an element of the left run comes
\* after the elements of the right run below it, an element of the right
\* run after the elements of the left run not above it.
MergeRuns(left, right) ==
    LET leftAt(i) == i + Cardinality({j \in 1..Len(right) : right[j] < left[i]})
        rightAt(j) == j + Cardinality({i \in 1..Len(left) : left[i] <= right[j]})
    IN  [k \in 1..(Len(left) + Len(right)) |->
            IF \E i \in 1..Len(left) : leftAt(i) = k
                THEN left[CHOOSE i \in 1..Len(left) : leftAt(i) = k]
                ELSE right[CHOOSE j \in 1..Len(right) : rightAt(j) = k]]

\* sort_by is a stable merge sort that sorts short slices (up to 20
\* elements) by insertion.
RECURSIVE SortAsc(_)
SortAsc(values) ==
    IF values = <<>> THEN <<>>
    ELSE IF Len(values) <= 20
        THEN InsertSorted(SortAsc(Tail(values)), Head(values))
    ELSE MergeRuns(SortAsc(SubSeq(values, 1, Len(values) \div 2)),
                   SortAsc(SubSeq(values, (Len(values) \div 2) + 1, Len(values))))

\* Variant: the mean of the i32 (wrapping) sum, truncated toward zero.
AverageOfWrappedSum(values) ==
    LET sum == FoldAdd(0, values).value
    IN  IF sum >= 0 THEN sum \div Len(values)
        ELSE 0 - ((0 - Max(sum, -Int32Max)) \div Len(values))

\* (sum as f64 / len as f64) as i32: the f64 sum of the i32 values is exact,
\* and the cast truncates the quotient toward zero.
AverageOf(values) ==
    LET sum == WideSum(values)
        quot == WideDivNat(IF sum[1] >= 0 THEN sum ELSE WideNeg(sum), Len(values))
    IN  IF sum[1] >= 0 THEN (quot[1] * 65536) + quot[2]
        ELSE ((-quot[1]) * 65536) - quot[2]

\* Variant: the nearest-rank index rounded up, ceil(len * p/100).
PercentileIndexCeil(len, p) == ((len * p) + 99) \div 100

\* Variant: the percentile counted from the top, floor(len * (100 - p)/100).
PercentileIndexFromTop(len, p) == (len * (100 - p)) \div 100

\* (len as f64 * p/100) as usize: the f64 product of len and 0.95 or 0.99
\* truncates to floor(len * p / 100) for every len below 2^31 / 100.
PercentileIndex(len, p) == (len * p) \div 100

\* sorted[index] with Rust's bounds check: <<value, out of bounds>>.
IndexAt(sorted, index) ==
    IF index < Len(sorted) THEN <<sorted[index + 1], FALSE>> ELSE <<0, TRUE>>

\* Histogram::from(&values).  panicked: first() / last() of an empty Vec
\* unwrapped, or an index past the end.
HistogramFrom(values) ==
    LET sorted == SortAsc(values)
        len == Len(sorted)
        median == IndexAt(sorted, len \div 2)
        p95 == IndexAt(sorted, PercentileIndex(len, 95))
        p99 == IndexAt(sorted, PercentileIndex(len, 99))
    IN  [min          |-> IF len = 0 THEN 0 ELSE sorted[1],
         max          |-> IF len = 0 THEN 0 ELSE sorted[len],
         median       |-> median[1],
         average      |-> IF len = 0 THEN 0 ELSE AverageOf(sorted),
         percentile95 |-> p95[1],
         percentile99 |-> p99[1],
         panicked     |-> len = 0 \/ median[2] \/ p95[2] \/ p99[2]]

\* Variant: the six gauges without the trailing .count push.
HistogramFanOutNoCount(id, values) ==
    LET histogram == HistogramFrom(values)
    IN  << AggregatedMetric("Gauge", suffix_id(id, ".min"), histogram.min),
           AggregatedMetric("Gauge", suffix_id(id, ".max"), histogram.max),
           AggregatedMetric("Gauge", suffix_id(id, ".median"), histogram.median),
           AggregatedMetric("Gauge", suffix_id(id, ".avg"), histogram.average),
           AggregatedMetric("Gauge", suffix_id(id, ".95percentile"), histogram.percentile95),
           AggregatedMetric("Gauge", suffix_id(id, ".99percentile"), histogram.percentile99) >>

\* The seven pushes of the Group::Histogram arm, without the time field.
HistogramFanOut(id, values) ==
    LET histogram == HistogramFrom(values)
    IN  << AggregatedMetric("Gauge", suffix_id(id, ".min"), histogram.min),
           AggregatedMetric("Gauge", suffix_id(id, ".max"), histogram.max),
           AggregatedMetric("Gauge", suffix_id(id, ".median"), histogram.median),
           AggregatedMetric("Gauge", suffix_id(id, ".avg"), histogram.average),
           AggregatedMetric("Gauge", suffix_id(id, ".95percentile"), histogram.percentile95),
           AggregatedMetric("Gauge", suffix_id(id, ".99percentile"), histogram.percentile99),
           AggregatedMetric("Count", suffix_id(id, ".count"), Len(values)) >>

\* One iteration of the rollup loop of Db::aggregate (the match on group).
DbRollupGroup(group, values) ==
    CASE group[1] = "Count" ->
            [out |-> <<AggregatedMetric("Count", group[2], CountFold(values).value)>>,
             overflowed |-> CountFold(values).overflowed,
             unwrapped |-> FALSE]
      [] group[1] = "Gauge" ->
            [out |-> <<AggregatedMetric("Gauge", group[2], GaugeMax(values))>>,
             overflowed |-> FALSE,
             unwrapped |-> FALSE]
      [] group[1] = "Histogram" ->
            [out |-> HistogramFanOut(group[2], values),
             overflowed |-> FALSE,
             unwrapped |-> HistogramFrom(values).panicked]

\* The rollup loop of Db::aggregate over grouped.into_iter() in the order
\* the HashMap yields the groups.
RECURSIVE DbRollup(_, _)
DbRollup(map, order) ==
    IF order = <<>> THEN [out |-> <<>>, overflowed |-> FALSE, unwrapped |-> FALSE]
    ELSE LET first == DbRollupGroup(Head(order), map[Head(order)])
             rest == DbRollup(map, Tail(order))
         IN  [out |-> first.out \o rest.out,
              overflowed |-> first.overflowed \/ rest.overflowed,
              unwrapped |-> first.unwrapped \/ rest.unwrapped]

\* Into<(AggregatedKey, i32)> for AggregatedMetric
IntoKeyValue(metric) == << <<metric.kind, metric.id>>, metric.value >>

\* Db::new() and one Collector, before any call.
InitDb ==
    /\ overflow_checks \in BOOLEAN
    /\ channel = <<>>
    /\ db_alive = TRUE
    /\ producer = "running"
    /\ last_push = "none"
    /\ collected_metrics = <<>>
    /\ buffer_lock = "free"
    /\ aggregated_metrics = <<>>
    /\ store_lock = "free"
    /\ pc_recv = "idle"
    /\ metrics = <<>>
    /\ pc_agg = "idle"
    /\ now = 0
    /\ drained = <<>>
    /\ grouped = <<>>
    /\ aggregated = <<>>
    /\ next_uid = 1
    /\ cycle = 0
    /\ drain_log = <<>>
    /\ collect_log = <<>>
    /\ series_cycle = <<>>

NoResult == [panicked |-> FALSE, out |-> <<>>]

\* Histogram::from not called.
IdleHist ==
    /\ pc_hist = "unused"
    /\ samples = <<>>
    /\ hist_out = <<>>

\* parse_metrics not called.
IdleParse ==
    /\ pc_parse = "unused"
    /\ parse_in = <<>>
    /\ parse_out = <<>>

\* No StatsD listener started.
IdleListen ==
    /\ transport = "none"
    /\ wire = <<>>
    /\ sent = <<>>
    /\ socket_thread = "unused"
    /\ line_channel = <<>>

\* No subscriber registered, nothing published.
IdleFanOut ==
    /\ subscribers = <<>>
    /\ published = 0

Init ==
    /\ InitDb
    /\ IdleHist
    /\ IdleParse
    /\ IdleListen
    /\ IdleFanOut
    /\ pc_pure = "unused"
    /\ input = <<>>
    /\ grouped_metrics = <<>>
    /\ output = NoResult
    /\ db_output = NoResult


\* ------------------------------------------------- Collector (intake handle)
\* Sender::send on the unbounded mpsc channel: Err once the Receiver is gone.
SendResult(alive) == IF alive THEN "Ok" ELSE "Err"

\* channel() is unbounded: send never waits, whatever is queued.
SendReady(queue) == TRUE

\* Variant: self.sender.send(metrics).unwrap()
PushReturnUnwrap(result) == IF result = "Err" THEN "panicked" ELSE "running"

\* let _ = self.sender.send(metrics): the Result is discarded.
PushReturn(result) == "running"

\* Batches a producer may submit next: 1..MaxEvents events in total.
Batches(uid) ==
    UNION {
        {b \in [1..n -> [kind : Kinds, id : PipeIds, value : PipeValues, uid : uid..(uid + n - 1)]] :
            \A i \in 1..n : b[i].uid = uid + i - 1}
        : n \in 1..(MaxEvents - uid + 1)}

\* Collector::push
Push ==
    /\ producer = "running"
    /\ SendReady(channel)
    /\ \E batch \in Batches(next_uid) :
        /\ last_push' = SendResult(db_alive)
        /\ channel' = IF SendResult(db_alive) = "Ok" THEN Append(channel, batch) ELSE channel
        /\ producer' = PushReturn(SendResult(db_alive))
        /\ next_uid' = next_uid + Len(batch)
    /\ UNCHANGED <<pureVars, extVars>>
    /\ UNCHANGED <<overflow_checks, db_alive, collected_metrics, buffer_lock>>
    /\ UNCHANGED <<aggVars, recvVars, storeVars>>

\* Batches of producers that also use a suffixed name.
SuffixedBatches(uid) ==
    UNION {
        {b \in [1..n -> [kind : Kinds, id : SuffixedIds, value : {1}, uid : uid..(uid + n - 1)]] :
            \A i \in 1..n : b[i].uid = uid + i - 1}
        : n \in 1..(MaxEvents - uid + 1)}

\* Collector::push by such a producer.
PushSuffixed ==
    /\ producer = "running"
    /\ SendReady(channel)
    /\ \E batch \in SuffixedBatches(next_uid) :
        /\ last_push' = SendResult(db_alive)
        /\ channel' = IF SendResult(db_alive) = "Ok" THEN Append(channel, batch) ELSE channel
        /\ producer' = PushReturn(SendResult(db_alive))
        /\ next_uid' = next_uid + Len(batch)
    /\ UNCHANGED <<pureVars, extVars>>
    /\ UNCHANGED <<overflow_checks, db_alive, collected_metrics, buffer_lock>>
    /\ UNCHANGED <<aggVars, recvVars, storeVars>>

\* The Db is dropped by its owner: the Receiver and its queued batches go
\* with it.  No &self borrow (recv, collect, aggregate) is outstanding.
DropDb ==
    /\ db_alive
    /\ pc_recv = "idle"
    /\ pc_agg \in {"idle", "panicked"}
    /\ db_alive' = FALSE
    /\ channel' = <<>>
    /\ UNCHANGED <<pureVars, extVars>>
    /\ UNCHANGED <<overflow_checks, collected_metrics, buffer_lock>>
    /\ UNCHANGED <<aggVars, recvVars, storeVars, pushVars>>

\* ------------------------------------------------------ Db::recv / collect
\* for metrics in &self.collection_receiver
RecvNext ==
    /\ db_alive
    /\ pc_recv = "idle"
    /\ channel # <<>>
    /\ metrics' = Head(channel)
    /\ channel' = Tail(channel)
    /\ pc_recv' = "collect"
    /\ UNCHANGED <<pureVars, extVars>>
    /\ UNCHANGED <<overflow_checks, db_alive, collected_metrics, buffer_lock, collect_log>>
    /\ UNCHANGED <<aggVars, storeVars, pushVars>>

\* Db::collect: self.collected_metrics.lock().unwrap()
CollectLock ==
    /\ pc_recv = "collect"
    /\ buffer_lock = "free"
    /\ buffer_lock' = "recv"
    /\ pc_recv' = "extend"
    /\ UNCHANGED <<pureVars, extVars>>
    /\ UNCHANGED <<overflow_checks, channel, db_alive, collected_metrics, metrics, collect_log>>
    /\ UNCHANGED <<aggVars, storeVars, pushVars>>

\* Variant: the batch is put in front of the buffered events.
ExtendFront(buffer, batch) == batch \o buffer

\* cell.get_mut().extend(metrics)
Extend(buffer, batch) == buffer \o batch

\* Db::collect: extend under the lock; the guard is dropped on return.
CollectExtend ==
    /\ pc_recv = "extend"
    /\ collected_metrics' = Extend(collected_metrics, metrics)
    /\ collect_log' = collect_log \o [i \in 1..Len(metrics) |-> metrics[i].uid]
    /\ buffer_lock' = "free"
    /\ metrics' = <<>>
    /\ pc_recv' = "idle"
    /\ UNCHANGED <<pureVars, extVars>>
    /\ UNCHANGED <<overflow_checks, channel, db_alive>>
    /\ UNCHANGED <<aggVars, storeVars, pushVars>>

\* ----------------------------------------------------------- Db::aggregate
\* let now = SystemTime::now()
AggregateStart ==
    /\ db_alive
    /\ pc_agg = "idle"
    /\ cycle < MaxCycles
    /\ now' \in Times
    /\ cycle' = cycle + 1
    /\ pc_agg' = "lock"
    /\ UNCHANGED <<pureVars, extVars>>
    /\ UNCHANGED <<overflow_checks, channel, db_alive, collected_metrics, buffer_lock>>
    /\ UNCHANGED <<drained, grouped, aggregated, drain_log>>
    /\ UNCHANGED <<recvVars, storeVars, pushVars>>

\* self.collected_metrics.lock().unwrap()
AggregateLock ==
    /\ pc_agg = "lock"
    /\ buffer_lock = "free"
    /\ buffer_lock' = "agg"
    /\ pc_agg' = "replace"
    /\ UNCHANGED <<pureVars, extVars>>
    /\ UNCHANGED <<overflow_checks, channel, db_alive, collected_metrics>>
    /\ UNCHANGED <<now, drained, grouped, aggregated, cycle, drain_log>>
    /\ UNCHANGED <<recvVars, storeVars, pushVars>>

\* Variant: the contents are cloned and left in the cell.
ReplaceKeep(buffer) == <<buffer, buffer>>

\* cell.replace(Vec::new()): <<returned value, new contents of the cell>>
Replace(buffer) == <<buffer, <<>>>>

\* Variant: the swap without the enclosing block, so that the guard lives
\* until the function returns.
AggregateReplaceHolding ==
    /\ pc_agg = "replace"
    /\ drained' = Replace(collected_metrics)[1]
    /\ collected_metrics' = Replace(collected_metrics)[2]
    /\ drain_log' = Append(drain_log, drained')
    /\ pc_agg' = "group"
    /\ UNCHANGED <<pureVars, extVars>>
    /\ UNCHANGED <<overflow_checks, channel, db_alive, now, grouped, aggregated, cycle>>
    /\ UNCHANGED <<buffer_lock, recvVars, storeVars, pushVars>>

\* cell.replace(Vec::new()); the guard is dropped at the end of the block.
AggregateReplace ==
    /\ pc_agg = "replace"
    /\ drained' = Replace(collected_metrics)[1]
    /\ collected_metrics' = Replace(collected_metrics)[2]
    /\ drain_log' = Append(drain_log, drained')
    /\ buffer_lock' = "free"
    /\ pc_agg' = "group"
    /\ UNCHANGED <<pureVars, extVars>>
    /\ UNCHANGED <<overflow_checks, channel, db_alive, now, grouped, aggregated, cycle>>
    /\ UNCHANGED <<recvVars, storeVars, pushVars>>

\* for metric in collected_metrics { ... grouped.entry(group) ... }
AggregateGroup ==
    /\ pc_agg = "group"
    /\ grouped' = DbGroup(drained)
    /\ drained' = <<>>
    /\ pc_agg' = "rollup"
    /\ UNCHANGED <<pureVars, extVars>>
    /\ UNCHANGED <<overflow_checks, channel, db_alive, collected_metrics, buffer_lock>>
    /\ UNCHANGED <<now, aggregated, cycle, drain_log>>
    /\ UNCHANGED <<recvVars, storeVars, pushVars>>

\* for (group, values) in grouped.into_iter() { match group ... }
AggregateRollup ==
    /\ pc_agg = "rollup"
    /\ \E order \in Orders(DOMAIN grouped) :
        LET r == DbRollup(grouped, order)
        IN  IF (r.overflowed /\ overflow_checks) \/ r.unwrapped
                THEN /\ pc_agg' = "panicked"
                     /\ aggregated' = <<>>
                ELSE /\ pc_agg' = "storelock"
                     /\ aggregated' = r.out
    /\ grouped' = <<>>
    /\ UNCHANGED <<pureVars, extVars>>
    /\ UNCHANGED <<overflow_checks, channel, db_alive, collected_metrics, buffer_lock>>
    /\ UNCHANGED <<now, drained, cycle, drain_log>>
    /\ UNCHANGED <<recvVars, storeVars, pushVars>>

\* self.aggregated_metrics.lock().unwrap()
AggregateStoreLock ==
    /\ pc_agg = "storelock"
    /\ store_lock = "free"
    /\ store_lock' = "agg"
    /\ pc_agg' = "store"
    /\ UNCHANGED <<pureVars, extVars>>
    /\ UNCHANGED <<overflow_checks, channel, db_alive, collected_metrics, buffer_lock>>
    /\ UNCHANGED <<now, drained, grouped, aggregated, cycle, drain_log>>
    /\ UNCHANGED <<aggregated_metrics, series_cycle>>
    /\ UNCHANGED <<recvVars, pushVars>>

\* Variant: insert(key, vec![(time, value)]) overwrites the series.
StoreMetricOverwrite(store, metric, time) ==
    [k \in (DOMAIN store) \cup {IntoKeyValue(metric)[1]} |->
        IF k = IntoKeyValue(metric)[1] THEN <<<<time, IntoKeyValue(metric)[2]>>>>
        ELSE store[k]]

\* Variant: values.insert(0, (time, value)) puts the entry in front.
StoreMetricFront(store, metric, time) ==
    [k \in (DOMAIN store) \cup {IntoKeyValue(metric)[1]} |->
        IF k = IntoKeyValue(metric)[1]
            THEN <<<<time, IntoKeyValue(metric)[2]>>>>
                 \o (IF k \in DOMAIN store THEN store[k] ELSE <<>>)
            ELSE store[k]]

\* One iteration of: aggregated_metrics.entry(key).or_insert_with(|| vec![])
\*                       .push((now, value))
StoreMetric(store, metric, time) ==
    EntryPush(store, IntoKeyValue(metric)[1], <<time, IntoKeyValue(metric)[2]>>)

AggregateStore ==
    /\ pc_agg = "store"
    /\ aggregated # <<>>
    /\ aggregated_metrics' = StoreMetric(aggregated_metrics, Head(aggregated), now)
    /\ series_cycle' = StoreMetric(series_cycle, Head(aggregated), cycle)
    /\ aggregated' = Tail(aggregated)
    /\ UNCHANGED <<pureVars, extVars>>
    /\ UNCHANGED <<overflow_checks, channel, db_alive, collected_metrics, buffer_lock>>
    /\ UNCHANGED <<pc_agg, now, drained, grouped, cycle, drain_log, store_lock>>
    /\ UNCHANGED <<recvVars, pushVars>>

\* End of Db::aggregate: the store guard is dropped.
AggregateDone ==
    /\ pc_agg = "store"
    /\ aggregated = <<>>
    /\ store_lock' = "free"
    /\ pc_agg' = "idle"
    /\ UNCHANGED <<pureVars, extVars>>
    /\ UNCHANGED <<overflow_checks, channel, db_alive, collected_metrics, buffer_lock>>
    /\ UNCHANGED <<now, drained, grouped, aggregated, cycle, drain_log>>
    /\ UNCHANGED <<aggregated_metrics, series_cycle>>
    /\ UNCHANGED <<recvVars, pushVars>>

\* ------------------------------------------------ db/aggregate.rs (pure)
\* CollectedMetric::{Count, Gauge, Histogram}(SystemTime, Id, i32)
TimedMetric(kind, id, value, time) ==
    [kind |-> kind, id |-> id, value |-> value, time |-> time]

\* group: Group::<variant>(id) -> Vec<(SystemTime, i32)>, in arrival order.
RECURSIVE GroupFrom(_, _)
GroupFrom(map, ms) ==
    IF ms = <<>> THEN map
    ELSE GroupFrom(EntryPush(map, <<Head(ms).kind, Head(ms).id>>,
                             <<Head(ms).time, Head(ms).value>>),
                   Tail(ms))

\* Variant: grouping by identifier alone, every event filed under the kind
\* of the first one.
GroupIgnoringKind(ms) ==
    GroupFrom(<<>>, [i \in 1..Len(ms) |-> [ms[i] EXCEPT !.kind = ms[1].kind]])

group(ms) == GroupFrom(<<>>, ms)

\* timeseries.iter().max_by(|x, y| x.0.cmp(&y.0)) then t.0; timeseries
\* is not empty.
RECURSIVE MaxTimeFrom(_, _)
MaxTimeFrom(best, timeseries) ==
    IF timeseries = <<>> THEN best
    ELSE MaxTimeFrom(IF Head(timeseries)[1] >= best THEN Head(timeseries)[1] ELSE best,
                     Tail(timeseries))

\* Variant: the timestamp of the last event to arrive.
GroupTimeOfLast(timeseries) == timeseries[Len(timeseries)][1]

GroupTime(timeseries) == MaxTimeFrom(Head(timeseries)[1], Tail(timeseries))

\* timeseries.iter().map(|t| t.1).collect::<Vec<i32>>()
ValuesOf(timeseries) == [i \in 1..Len(timeseries) |-> timeseries[i][2]]

\* AggregatedMetric::{Count, Gauge}(SystemTime, Id, i32)
Stamp(metric, time) ==
    [kind |-> metric.kind, id |-> metric.id, value |-> metric.value, time |-> time]

StampAll(ms, time) == [i \in 1..Len(ms) |-> Stamp(ms[i], time)]

\* One iteration of the loop of aggregate: an empty timeseries is skipped
\* (None => continue), otherwise the match on group.
RollupGroup(grp, timeseries) ==
    IF timeseries = <<>>
        THEN [out |-> <<>>, overflowed |-> FALSE, unwrapped |-> FALSE]
    ELSE LET time == GroupTime(timeseries)
             values == ValuesOf(timeseries)
         IN  CASE grp[1] = "Count" ->
                    [out |-> <<Stamp(AggregatedMetric("Count", grp[2], CountFold(values).value), time)>>,
                     overflowed |-> CountFold(values).overflowed,
                     unwrapped |-> FALSE]
               [] grp[1] = "Gauge" ->
                    [out |-> <<Stamp(AggregatedMetric("Gauge", grp[2], GaugeMax(values)), time)>>,
                     overflowed |-> FALSE,
                     unwrapped |-> FALSE]
               [] grp[1] = "Histogram" ->
                    [out |-> StampAll(HistogramFanOut(grp[2], values), time),
                     overflowed |-> FALSE,
                     unwrapped |-> HistogramFrom(values).panicked]

\* aggregate: the groups in the order grouped.into_iter() yields them.
RECURSIVE aggregate(_, _)
aggregate(map, order) ==
    IF order = <<>> THEN [out |-> <<>>, overflowed |-> FALSE, unwrapped |-> FALSE]
    ELSE LET first == RollupGroup(Head(order), map[Head(order)])
             rest == aggregate(map, Tail(order))
         IN  [out |-> first.out \o rest.out,
              overflowed |-> first.overflowed \/ rest.overflowed,
              unwrapped |-> first.unwrapped \/ rest.unwrapped]

\* What the caller sees: a panic when an addition overflowed in a build
\* with overflow checks or Histogram::from panicked, the Vec otherwise.
Outcome(r, checks) ==
    IF (r.overflowed /\ checks) \/ r.unwrapped THEN [panicked |-> TRUE, out |-> <<>>]
    ELSE [panicked |-> FALSE, out |-> r.out]

Inputs ==
    UNION {[1..n -> [kind : Kinds, id : Ids, value : Values, time : Times]] : n \in 0..MaxBatch}

InitAgg ==
    /\ InitDb
    /\ IdleFanOut
    /\ IdleHist
    /\ IdleParse
    /\ IdleListen
    /\ pc_pure = "input"
    /\ input \in Inputs
    /\ grouped_metrics = <<>>
    /\ output = NoResult
    /\ db_output = NoResult

pipeVars == <<overflow_checks, dbVars, aggVars, recvVars, storeVars, pushVars>>

\* let grouped = group(&metrics)
CallGroup ==
    /\ pc_pure = "input"
    /\ grouped_metrics' = group(input)
    /\ pc_pure' = "grouped"
    /\ UNCHANGED <<pipeVars, extVars, input, output, db_output>>

\* let aggregated = aggregate(grouped)
CallAggregate ==
    /\ pc_pure = "grouped"
    /\ \E order \in Orders(DOMAIN grouped_metrics) :
        output' = Outcome(aggregate(grouped_metrics, order), overflow_checks)
    /\ pc_pure' = "done"
    /\ UNCHANGED <<pipeVars, extVars, input, grouped_metrics, db_output>>

\* The grouping and rollup loops of Db::aggregate on the same events.
CallDbRollup ==
    /\ pc_pure = "input"
    /\ \E order \in Orders(DOMAIN DbGroup(input)) :
        db_output' = Outcome(DbRollup(DbGroup(input), order), overflow_checks)
    /\ pc_pure' = "db_done"
    /\ UNCHANGED <<pipeVars, extVars, input, grouped_metrics, output>>

\* ------------------------------------- the rollups on an arbitrary grouping
\* The Vec<(SystemTime, i32)> of a group, possibly empty.
Timeserieses ==
    UNION {[1..n -> {<<1, -3>>, <<2, Int32Max>>}] : n \in 0..MaxBatch}

\* Any GroupedMetrics value: aggregate is a pub fn and takes whatever map
\* its caller built, also one with a key whose Vec is empty.
GroupedInputs ==
    UNION {[keys -> Timeserieses] : keys \in SUBSET (Kinds \X PipeIds)}

InitGrouped ==
    /\ InitDb
    /\ IdleFanOut
    /\ IdleHist
    /\ IdleParse
    /\ IdleListen
    /\ pc_pure = "grouped"
    /\ input = <<>>
    /\ grouped_metrics \in GroupedInputs
    /\ output = NoResult
    /\ db_output = NoResult

\* The same grouping as the rollup loop of Db::aggregate holds it.
DbGrouped == [key \in DOMAIN grouped_metrics |-> ValuesOf(grouped_metrics[key])]

\* The rollup loop of Db::aggregate on the values of the same grouping.
CallDbRollupGrouped ==
    /\ pc_pure = "grouped"
    /\ \E order \in Orders(DOMAIN DbGrouped) :
        db_output' = Outcome(DbRollup(DbGrouped, order), overflow_checks)
    /\ pc_pure' = "db_done"
    /\ UNCHANGED <<pipeVars, extVars, input, grouped_metrics, output>>

NextGrouped ==
    \/ CallAggregate
    \/ CallDbRollupGrouped

SpecGrouped == InitGrouped /\ [][NextGrouped]_vars

\* ------------------------------------------------ Histogram::from alone
\* Sample counts beyond MaxSamples: the smallest count at which the 95th
\* percentile is not the maximum, and the smallest at which the 99th is not.
LargeSizes == {21, 101}

HistSizes == (1..MaxSamples) \cup LargeSizes

\* n samples in a descending run rotated by r, drawn from m distinct
\* values (m < n repeats values): small values around zero, values at the
\* top of the i32 range, or values at its bottom.
SamplesOf(n, r, m, range) ==
    [i \in 1..n |->
        LET v == (((n - i) + r) % n) % m
        IN  CASE range = "small" -> v - 3
              [] range = "high"  -> Int32Max - v
              [] range = "low"   -> Int32Min + v]

HistInputs ==
    UNION {{SamplesOf(n, r, m, range) :
                r \in 0..3, m \in {2, n}, range \in {"small", "high", "low"}} :
           n \in HistSizes}

InitHist ==
    /\ InitDb
    /\ IdleFanOut
    /\ IdleParse
    /\ IdleListen
    /\ pc_pure = "unused"
    /\ input = <<>>
    /\ grouped_metrics = <<>>
    /\ output = NoResult
    /\ db_output = NoResult
    /\ pc_hist = "input"
    /\ samples \in HistInputs
    /\ hist_out = <<>>

\* let histogram = Histogram::from(&values)
CallHistogramFrom ==
    /\ pc_hist = "input"
    /\ hist_out' = HistogramFrom(samples)
    /\ pc_hist' = "done"
    /\ UNCHANGED <<pipeVars, pureVars, parseVars, listenVars, fanVars, samples>>

NextHist == CallHistogramFrom

SpecHist == InitHist /\ [][NextHist]_vars

\* -------------------------------------------- recv/push/statsd.rs (parser)
\* Text is a sequence of one-character strings.
DigitSeq == <<"0", "1", "2", "3", "4", "5", "6", "7", "8", "9">>

DigitChars == Range(DigitSeq)

\* is_alphanumeric(c) || c == b'.' || c == b'_', for the letters that
\* occur in the texts.
NameChars == DigitChars \cup {"a", "b", "c", "g", "m", "s", ".", "_"}

\* The characters str::trim_right removes.
Whitespace == {"\n", " "}

Take(i, n) == SubSeq(i, 1, n)

Drop(i, n) == SubSeq(i, n + 1, Len(i))

\* The length of the longest prefix of i made of characters of S.
RECURSIVE PrefixLen(_, _)
PrefixLen(i, S) ==
    IF i # <<>> /\ Head(i) \in S THEN 1 + PrefixLen(Tail(i), S) ELSE 0

\* A failed parser (IResult::Error, or Incomplete under complete!).
Failed(i) == [ok |-> FALSE, rest |-> i, out |-> <<>>]

Done(rest, out) == [ok |-> TRUE, rest |-> rest, out |-> out]

\* tag!(t)
tag(i, t) ==
    IF Len(i) >= Len(t) /\ Take(i, Len(t)) = t THEN Done(Drop(i, Len(t)), t)
    ELSE Failed(i)

\* The value of a run of decimal digits.
RECURSIVE DigitsValue(_)
DigitsValue(ds) ==
    IF ds = <<>> THEN 0
    ELSE (DigitsValue(Take(ds, Len(ds) - 1)) * 10)
            + ((CHOOSE k \in 1..10 : DigitSeq[k] = ds[Len(ds)]) - 1)

\* The first three decimals, padded with zeros.
Thousandths(decimals) == Take(decimals \o <<"0", "0", "0">>, 3)

\* The value in thousandths of an unsigned text with `whole` leading
\* digits, a "." and decimals, or with the digits alone.
UnsignedMilli(body, whole) ==
    (DigitsValue(Take(body, whole)) * 1000)
        + DigitsValue(Thousandths(Drop(body, whole + 1)))

\* f64::from_str on the text recognised by double, in thousandths (texts
\* carry at most three decimals).
FromStr(text) ==
    IF Head(text) = "-"
        THEN 0 - UnsignedMilli(Tail(text), PrefixLen(Tail(text), DigitChars))
        ELSE UnsignedMilli(text, PrefixLen(text, DigitChars))

\* opt!(tag!("-")): the length of the sign.
SignLen(i) == IF i # <<>> /\ Head(i) = "-" THEN 1 ELSE 0

\* tag!("."): a point follows the first n characters of j.
PointAt(j, n) == Len(j) > n /\ j[n + 1] = "."

\* The length of what the alternatives of double recognise, given the
\* number of leading digits, whether a point follows them, and the number
\* of digits after the point; 0 when no alternative matches.
\*   delimited!(digit, tag!("."), opt!(complete!(digit)))
\* | delimited!(opt!(digit), tag!("."), digit)
\* | digit
RecognizedLen(whole, point, decimals) ==
    IF whole > 0 /\ point THEN whole + 1 + decimals
    ELSE IF point /\ decimals > 0 THEN 1 + decimals
    ELSE whole

\* The same for the text j after the sign, with `whole` leading digits.
NumberLen(j, whole) ==
    RecognizedLen(whole, PointAt(j, whole),
                  IF PointAt(j, whole) THEN PrefixLen(Drop(j, whole + 1), DigitChars)
                  ELSE 0)

\* recognize! and the two map_res! of double.
DoubleOf(i, len) ==
    IF len = 0 THEN Failed(i)
    ELSE Done(Drop(i, SignLen(i) + len), FromStr(Take(i, SignLen(i) + len)))

\* double
double(i) ==
    DoubleOf(i, NumberLen(Drop(i, SignLen(i)),
                          PrefixLen(Drop(i, SignLen(i)), DigitChars)))

\* Atom::from(name): the characters as one string.
RECURSIVE AtomFrom(_)
AtomFrom(name) == IF name = <<>> THEN "" ELSE Head(name) \o AtomFrom(Tail(name))

\* metric_name: take_while! over the name characters (possibly none).
metric_name(i) ==
    Done(Drop(i, PrefixLen(i, NameChars)), Take(i, PrefixLen(i, NameChars)))

\* preceded!(tag!("|@"), double) once the tag has been tried.
RateAfter(i, prefix) == IF prefix.ok THEN double(prefix.rest) ELSE Failed(i)

\* sample_rate
sample_rate(i) == RateAfter(i, tag(i, <<"|", "@">>))

\* The steps of do_parse! that counter, gauge and timer share, one
\* operator per `>>`: metric_name >> tag!(":") >> double >> tag!(type).
\* The result carries <<name, value>>.
AfterType(i, name, value, typed) ==
    IF typed.ok THEN Done(typed.rest, <<AtomFrom(name), value>>) ELSE Failed(i)

AfterValue(i, name, value, type) ==
    IF value.ok THEN AfterType(i, name, value.out, tag(value.rest, type))
    ELSE Failed(i)

AfterColon(i, name, colon, type) ==
    IF colon.ok THEN AfterValue(i, name, double(colon.rest), type) ELSE Failed(i)

AfterName(i, name, type) == AfterColon(i, name.out, tag(name.rest, <<":">>), type)

NameValueType(i, type) == AfterName(i, metric_name(i), type)

\* (StatsdMetric::Counter(Atom::from(name), value, None)), the input left
\* being what follows the sample rate when there is one.
CounterDone(parsed, rate) ==
    Done(IF rate.ok THEN rate.rest ELSE parsed.rest,
         [kind |-> "Counter", name |-> parsed.out[1],
          value |-> parsed.out[2], sample_rate |-> "None"])

CounterOf(i, parsed) ==
    IF parsed.ok THEN CounterDone(parsed, sample_rate(parsed.rest)) ELSE Failed(i)

\* counter: ... tag!("|c") >> opt!(complete!(sample_rate))
counter(i) == CounterOf(i, NameValueType(i, <<"|", "c">>))

GaugeOf(i, parsed) ==
    IF parsed.ok
        THEN Done(parsed.rest,
                  [kind |-> "Gauge", name |-> parsed.out[1], value |-> parsed.out[2]])
        ELSE Failed(i)

\* gauge: ... tag!("|g")
gauge(i) == GaugeOf(i, NameValueType(i, <<"|", "g">>))

TimerOf(i, parsed) ==
    IF parsed.ok
        THEN Done(parsed.rest,
                  [kind |-> "Timer", name |-> parsed.out[1],
                   value |-> parsed.out[2], sample_rate |-> "None"])
        ELSE Failed(i)

\* timer: ... tag!("|ms")
timer(i) == TimerOf(i, NameValueType(i, <<"|", "m", "s">>))

\* alt_complete!: the first alternative that succeeds.
FirstOk(first, second, third) ==
    IF first.ok THEN first ELSE IF second.ok THEN second ELSE third

\* alt_complete!(counter | gauge | timer)
Metric(i) == FirstOk(counter(i), gauge(i), timer(i))

\* The loop of separated_nonempty_list_complete! after the first element:
\* when the separator or the element after it fails, the list so far is
\* returned together with the input that was left before the separator.
RECURSIVE ListFrom(_, _)
ListAdd(acc, rest, after, next) ==
    IF next.ok /\ Len(next.rest) < Len(after)
        THEN ListFrom(Append(acc, next.out), next.rest)
        ELSE Done(rest, acc)

ListNext(acc, rest, sep) ==
    IF sep.ok THEN ListAdd(acc, rest, sep.rest, Metric(sep.rest)) ELSE Done(rest, acc)

ListFrom(acc, rest) == ListNext(acc, rest, tag(rest, <<"\n">>))

ListStart(i, first) ==
    IF first.ok THEN ListFrom(<<first.out>>, first.rest) ELSE Failed(i)

\* metrics: separated_nonempty_list_complete!(tag!("\n"), alt_complete!(...))
metrics_list(i) == ListStart(i, Metric(i))

\* The match of parse_metrics: Done(_, metrics) => Ok(metrics), whatever
\* input is left; Error => Err.
ResultOf(result) ==
    IF result.ok THEN [ok |-> TRUE, metrics |-> result.out]
    ELSE [ok |-> FALSE, metrics |-> <<>>]

\* parse_metrics
parse_metrics(i) == ResultOf(metrics_list(i))

\* str::trim_right
RECURSIVE trim_right(_)
trim_right(text) ==
    IF text # <<>> /\ text[Len(text)] \in Whitespace
        THEN trim_right(Take(text, Len(text) - 1))
        ELSE text

\* The lines a client may send: a name, ":" (left out in a malformed
\* line), a value, "|" and a type, and optionally "|@" and a sample rate.
\* milli is the value in thousandths.
LineValues ==
    {[text |-> <<"1">>, milli |-> 1000],
     [text |-> <<"-", "2", ".", "5">>, milli |-> -2500]}

Lines ==
    [name : {<<"a">>}, colon : BOOLEAN, value : LineValues,
     type : {<<"c">>, <<"g">>, <<"m", "s">>}, rate : {<<>>, <<"2">>}]

Render(line) ==
    line.name \o (IF line.colon THEN <<":">> ELSE <<>>) \o line.value.text
        \o <<"|">> \o line.type
        \o (IF line.rate = <<>> THEN <<>> ELSE <<"|", "@">> \o line.rate)

\* The lines joined by "\n".
RECURSIVE RenderAll(_)
RenderAll(lines) ==
    IF lines = <<>> THEN <<>>
    ELSE IF Len(lines) = 1 THEN Render(lines[1])
    ELSE Render(Head(lines)) \o <<"\n">> \o RenderAll(Tail(lines))

Texts == UNION {[1..n -> Lines] : n \in 1..MaxLines}

InitParse ==
    /\ InitDb
    /\ IdleFanOut
    /\ IdleHist
    /\ IdleListen
    /\ pc_pure = "unused"
    /\ input = <<>>
    /\ grouped_metrics = <<>>
    /\ output = NoResult
    /\ db_output = NoResult
    /\ pc_parse = "input"
    /\ parse_in \in Texts
    /\ parse_out = <<>>

\* parse_metrics(text.as_bytes())
CallParseMetrics ==
    /\ pc_parse = "input"
    /\ parse_out' = parse_metrics(RenderAll(parse_in))
    /\ pc_parse' = "done"
    /\ UNCHANGED <<pipeVars, pureVars, histVars, listenVars, fanVars, parse_in>>

NextParse == CallParseMetrics

SpecParse == InitParse /\ [][NextParse]_vars

\* ------------------------------------ recv/push/statsd/{udp,tcp}.rs (listen)
\* What a client sends at once: a text of 1..MaxLines lines (all with the
\* value 1), or bytes that are not UTF-8.
Payloads ==
    {[utf8 |-> TRUE, lines |-> text] :
        text \in {t \in Texts : \A i \in 1..Len(t) : t[i].value.milli = 1000}}
        \cup {[utf8 |-> FALSE, lines |-> <<>>]}

\* A later payload: one well-formed gauge line.
FollowUps ==
    {[utf8 |-> TRUE, lines |-> <<line>>] : line \in {l \in Lines : l.colon /\ l.type = <<"g">> /\ l.rate = <<>>
                                        /\ l.value.milli = 1000}}

Wires == {<<first>> : first \in Payloads}
            \cup {<<first, second>> : first \in Payloads, second \in FollowUps}

InitListen ==
    /\ InitDb
    /\ IdleFanOut
    /\ IdleHist
    /\ IdleParse
    /\ pc_pure = "unused"
    /\ input = <<>>
    /\ grouped_metrics = <<>>
    /\ output = NoResult
    /\ db_output = NoResult
    /\ transport \in {"udp", "tcp"}
    /\ wire \in Wires
    /\ sent = wire
    /\ socket_thread = "running"
    /\ line_channel = <<>>

listenFrame == <<pureVars, histVars, parseVars, fanVars, transport, sent>>

\* One turn of the loop of the thread spawned by StatsdUdpListener::listen:
\* recv_from, str::from_utf8 (Err => return), send the datagram as one
\* String.
UdpRecvFrom ==
    /\ transport = "udp"
    /\ socket_thread = "running"
    /\ wire # <<>>
    /\ IF ~Head(wire).utf8
            THEN /\ socket_thread' = "exited"
                 /\ line_channel' = line_channel
            ELSE /\ socket_thread' = "running"
                 /\ line_channel' = Append(line_channel, RenderAll(Head(wire).lines))
    /\ wire' = Tail(wire)
    /\ UNCHANGED <<pipeVars, listenFrame>>

\* One turn of the loop of StatsdTcpListener::handle_client: read_line
\* (Err => break on bytes that are not UTF-8), send the line with its
\* newline.
TcpReadLine ==
    /\ transport = "tcp"
    /\ socket_thread = "running"
    /\ wire # <<>>
    /\ IF ~Head(wire).utf8
            THEN /\ socket_thread' = "exited"
                 /\ line_channel' = line_channel
                 /\ wire' = Tail(wire)
            ELSE /\ socket_thread' = "running"
                 /\ line_channel' = Append(line_channel,
                                           Render(Head(Head(wire).lines)) \o <<"\n">>)
                 /\ wire' = IF Len(Head(wire).lines) = 1 THEN Tail(wire)
                            ELSE <<[Head(wire) EXCEPT !.lines = Tail(@)]>> \o Tail(wire)
    /\ UNCHANGED <<pipeVars, listenFrame>>

\* read_line returns Ok(0): the client closed the connection.
TcpEndOfStream ==
    /\ transport = "tcp"
    /\ socket_thread = "running"
    /\ wire = <<>>
    /\ socket_thread' = "closed"
    /\ UNCHANGED <<pipeVars, listenFrame, wire, line_channel>>

\* recv_from or read_line returns an I/O error: return / break.
SocketError ==
    /\ socket_thread = "running"
    /\ socket_thread' = "failed"
    /\ UNCHANGED <<pipeVars, listenFrame, wire, line_channel>>

\* One turn of `for line in recv` in listen (the same in both listeners):
\* parse_metrics(line.trim_right()), Ok => collector.push (the batch of
\* the metrics converted one by one), Err => ().
ListenNext ==
    /\ line_channel # <<>>
    /\ producer = "running"
    /\ LET result == parse_metrics(trim_right(Head(line_channel)))
       IN  IF result.ok
               THEN /\ last_push' = SendResult(db_alive)
                    /\ channel' = IF SendResult(db_alive) = "Ok"
                                      THEN Append(channel, result.metrics)
                                      ELSE channel
                    /\ producer' = PushReturn(SendResult(db_alive))
               ELSE UNCHANGED <<last_push, channel, producer>>
    /\ line_channel' = Tail(line_channel)
    /\ UNCHANGED <<listenFrame, wire, socket_thread>>
    /\ UNCHANGED <<overflow_checks, db_alive, collected_metrics, buffer_lock, next_uid>>
    /\ UNCHANGED <<aggVars, recvVars, storeVars>>

NextListen ==
    \/ UdpRecvFrom
    \/ TcpReadLine
    \/ TcpEndOfStream
    \/ SocketError
    \/ ListenNext

SpecListen == InitListen /\ [][NextListen]_vars

\* ------------------------------------------------- subscription fan-out
\* A subscriber's channel: bounded, with its receiving end connected.
NewSubscriber == [queue |-> <<>>, connected |-> TRUE]

\* The non-blocking send of one batch on one subscriber channel: dropped
\* when the channel is full or its receiving end is gone.
TrySend(subscriber, batch) ==
    IF subscriber.connected /\ Len(subscriber.queue) < Capacity
        THEN [subscriber EXCEPT !.queue = Append(@, batch)]
        ELSE subscriber

\* Variant: the fan-out gives up at the first subscriber that refuses the
\* batch, leaving out the subscribers registered after it.
RECURSIVE DeliverUntilRefused(_, _)
DeliverUntilRefused(registry, batch) ==
    IF registry = <<>> THEN <<>>
    ELSE IF TrySend(Head(registry), batch) = Head(registry) THEN registry
    ELSE <<TrySend(Head(registry), batch)>> \o DeliverUntilRefused(Tail(registry), batch)

\* publish: the batch is offered to every registered subscriber in turn.
Deliver(registry, batch) == [i \in DOMAIN registry |-> TrySend(registry[i], batch)]

InitFanOut ==
    /\ InitDb
    /\ IdleHist
    /\ IdleParse
    /\ IdleListen
    /\ IdleFanOut
    /\ pc_pure = "unused"
    /\ input = <<>>
    /\ grouped_metrics = <<>>
    /\ output = NoResult
    /\ db_output = NoResult

fanFrame == <<pipeVars, pureVars, histVars, parseVars, listenVars>>

\* subscribe(): registers a new channel and returns its receiving end.
Subscribe ==
    /\ Len(subscribers) < MaxSubscribers
    /\ subscribers' = Append(subscribers, NewSubscriber)
    /\ UNCHANGED <<fanFrame, published>>

\* publish(batch) by the scheduler; the batch of the n-th cycle is n.
Publish ==
    /\ published < MaxPublishes
    /\ published' = published + 1
    /\ subscribers' = Deliver(subscribers, published + 1)
    /\ UNCHANGED fanFrame

\* A subscriber takes the oldest batch off its channel.
SubscriberReceive ==
    /\ \E i \in DOMAIN subscribers :
        /\ subscribers[i].connected
        /\ subscribers[i].queue # <<>>
        /\ subscribers' = [subscribers EXCEPT ![i].queue = Tail(@)]
    /\ UNCHANGED <<fanFrame, published>>

\* A subscriber drops its receiving end; what was queued goes with it.
SubscriberDisconnect ==
    /\ \E i \in DOMAIN subscribers :
        /\ subscribers[i].connected
        /\ subscribers' = [subscribers EXCEPT ![i] = [queue |-> <<>>, connected |-> FALSE]]
    /\ UNCHANGED <<fanFrame, published>>

NextFanOut ==
    \/ Subscribe
    \/ Publish
    \/ SubscriberReceive
    \/ SubscriberDisconnect

SpecFanOut == InitFanOut /\ [][NextFanOut]_vars

NextAgg ==
    \/ CallGroup
    \/ CallAggregate
    \/ CallDbRollup

SpecAgg == InitAgg /\ [][NextAgg]_vars

Next ==
    \/ Push
    \/ DropDb
    \/ RecvNext
    \/ CollectLock
    \/ CollectExtend
    \/ AggregateStart
    \/ AggregateLock
    \/ AggregateReplace
    \/ AggregateGroup
    \/ AggregateRollup
    \/ AggregateStoreLock
    \/ AggregateStore
    \/ AggregateDone

Spec == Init /\ [][Next]_vars

\* The same pipeline fed by producers that also use a suffixed name.
NextSuffixed ==
    \/ PushSuffixed
    \/ DropDb
    \/ RecvNext
    \/ CollectLock
    \/ CollectExtend
    \/ AggregateStart
    \/ AggregateLock
    \/ AggregateReplace
    \/ AggregateGroup
    \/ AggregateRollup
    \/ AggregateStoreLock
    \/ AggregateStore
    \/ AggregateDone

SpecSuffixed == Init /\ [][NextSuffixed]_vars

\* ================================================================== claims
\* The events of input forming one group, in arrival order.
InputGroup(kind, id) == SelectSeq(input, LAMBDA m : m.kind = kind /\ m.id = id)

InputValues(kind, id) ==
    [i \in 1..Len(InputGroup(kind, id)) |-> InputGroup(kind, id)[i].value]

InputTimes(kind, id) ==
    [i \in 1..Len(InputGroup(kind, id)) |-> InputGroup(kind, id)[i].time]

\* The metrics of a result carrying one (kind, identifier).
Matching(out, kind, id) == SelectSeq(out, LAMBDA m : m.kind = kind /\ m.id = id)

\* The names a histogram on "lat" fans out to, written out.
GaugeSuffixed == {"lat.min", "lat.max", "lat.median", "lat.avg",
                  "lat.95percentile", "lat.99percentile"}
CountSuffixed == "lat.count"

\* The (kind, identifier) pairs the rollup of one group is specified to emit.
ExpectedKeys(kind, id) ==
    IF kind = "Histogram"
        THEN {<<"Gauge", <<n, id[2]>>>> : n \in GaugeSuffixed}
             \cup {<<"Count", <<CountSuffixed, id[2]>>>>}
        ELSE {<<kind, id>>}

\* Both rollups returned to their caller.
Returned == 
    \/ pc_pure = "done" /\ ~output.panicked
    \/ pc_pure = "db_done" /\ ~db_output.panicked

\* The Vec the rollup returned.
ReturnedOut == IF pc_pure = "done" THEN output.out ELSE db_output.out

\* C2 (as claimed): whenever a rollup returns, every Count group has exactly
\* one Count metric for its identifier, and its value is the arithmetic
\* (unbounded) sum of the group's input values.
SumOf(out) ==
    \A id \in Ids :
        InputGroup("Count", id) # <<>> =>
            /\ Len(Matching(out, "Count", id)) = 1
            /\ WideOf(Matching(out, "Count", id)[1].value) = WideSum(InputValues("Count", id))

C2_SumInvariant == Returned => SumOf(ReturnedOut)

\* C3: whenever a rollup returns, every Gauge group has exactly one Gauge
\* metric for its identifier, and its value is the maximum of the group's
\* input values, whatever their arrival order and timestamps.
MaxOf(out) ==
    \A id \in Ids :
        InputGroup("Gauge", id) # <<>> =>
            /\ Len(Matching(out, "Gauge", id)) = 1
            /\ Matching(out, "Gauge", id)[1].value = SeqMax(InputValues("Gauge", id))

C3_MaxInvariant == Returned => MaxOf(ReturnedOut)

\* C3 witness: a rollup returned for a Gauge group whose maximum arrived
\* first and carries the earlier timestamp.
C3_Witness ==
    /\ pc_pure = "done"
    /\ ~output.panicked
    /\ \E id \in Ids :
        /\ Len(InputGroup("Gauge", id)) = 2
        /\ InputGroup("Gauge", id)[1].value > InputGroup("Gauge", id)[2].value
        /\ InputGroup("Gauge", id)[1].time < InputGroup("Gauge", id)[2].time
        /\ Matching(output.out, "Gauge", id)[1].value = InputGroup("Gauge", id)[1].value

\* C4: whenever aggregate returns, every metric it produced belongs to one
\* input group, every group produced all its metrics, and each of them
\* carries the maximum timestamp of that group's input events.
C4_TimestampRepresentative ==
    (pc_pure = "done" /\ ~output.panicked) =>
        /\ \A kind \in Kinds, id \in Ids :
            InputGroup(kind, id) # <<>> =>
                \A key \in ExpectedKeys(kind, id) :
                    /\ Matching(output.out, key[1], key[2]) # <<>>
                    /\ \A i \in 1..Len(Matching(output.out, key[1], key[2])) :
                        Matching(output.out, key[1], key[2])[i].time
                            = SeqMax(InputTimes(kind, id))
        /\ \A i \in 1..Len(output.out) :
            \E kind \in Kinds, id \in Ids :
                /\ InputGroup(kind, id) # <<>>
                /\ <<output.out[i].kind, output.out[i].id>> \in ExpectedKeys(kind, id)

\* C4 witness: aggregate returned for a Histogram group of two events
\* whose latest timestamp is on the event that arrived first.
C4_Witness ==
    /\ pc_pure = "done"
    /\ ~output.panicked
    /\ \E id \in Ids :
        /\ Len(InputGroup("Histogram", id)) = 2
        /\ InputGroup("Histogram", id)[1].time > InputGroup("Histogram", id)[2].time
        /\ Len(output.out) >= 7

\* C5: whenever a rollup returns, every Histogram group of n >= 1 events
\* has exactly seven metrics: one Gauge for each of <name>.min, .max,
\* .median, .avg, .95percentile, .99percentile and one Count <name>.count
\* of value n, all with the group's dimensions; no metric is a Histogram.
FanOutOf(out) ==
    /\ \A id \in Ids :
        InputGroup("Histogram", id) # <<>> =>
            /\ Len(SelectSeq(out, LAMBDA m :
                    /\ m.id[2] = id[2]
                    /\ m.id[1] \in GaugeSuffixed \cup {CountSuffixed})) = 7
            /\ \A n \in GaugeSuffixed : Len(Matching(out, "Gauge", <<n, id[2]>>)) = 1
            /\ Len(Matching(out, "Count", <<CountSuffixed, id[2]>>)) = 1
            /\ Matching(out, "Count", <<CountSuffixed, id[2]>>)[1].value
                   = Len(InputGroup("Histogram", id))
    /\ \A i \in 1..Len(out) : out[i].kind \in {"Count", "Gauge"}

C5_HistogramFanOut == Returned => FanOutOf(ReturnedOut)

\* C5 witness: a rollup returned the seven metrics of a Histogram group of
\* two events, the .count among them with value 2.
C5_Witness ==
    /\ Returned
    /\ \E id \in Ids :
        /\ Len(InputGroup("Histogram", id)) = 2
        /\ Len(ReturnedOut) = 7
        /\ Matching(ReturnedOut, "Count", <<CountSuffixed, id[2]>>)[1].value = 2

\* C6 (as claimed): events of one kind whose identifiers have the same
\* name and the same set of dimension pairs, in whatever order, share one
\* group: group returns as many groups as the input has distinct
\* (kind, name, dimension set) triples.
DimensionSet(id) == Range(id[2])

C6_IdentifierEquality ==
    pc_pure = "grouped" =>
        Cardinality(DOMAIN grouped_metrics)
            = Cardinality({<<input[i].kind, input[i].id[1], DimensionSet(input[i].id)>> :
                              i \in 1..Len(input)})

\* --------------------------------------------------- claims on the Db
\* The uids of a batch, in order.
Uids(ms) == [i \in 1..Len(ms) |-> ms[i].uid]

RECURSIVE Flatten(_)
Flatten(batches) == IF batches = <<>> THEN <<>> ELSE Head(batches) \o Flatten(Tail(batches))

\* Number of positions of s holding x.
Occurrences(s, x) == Cardinality({i \in 1..Len(s) : s[i] = x})

\* Number of cycles whose drain returned the event uid.
CyclesHolding(uid) ==
    Cardinality({c \in 1..Len(drain_log) : Occurrences(Uids(drain_log[c]), uid) > 0})

\* C1: every event that reached collect is either still in the buffer or
\* was returned by the drain of exactly one cycle, once; an event that has
\* not reached collect is in no drain.
C1_DrainExclusivity ==
    \A uid \in 1..(next_uid - 1) :
        LET buffered == Occurrences(Uids(collected_metrics), uid)
            drains == Occurrences(Uids(Flatten(drain_log)), uid)
        IN  IF Occurrences(collect_log, uid) > 0
                THEN /\ buffered + drains = 1
                     /\ CyclesHolding(uid) = drains
                ELSE buffered + drains = 0

\* C1 witness: two events were collected around a drain: the first was
\* taken by cycle 1, the second by cycle 2.
C1_Witness ==
    /\ Len(drain_log) = 2
    /\ Uids(drain_log[1]) = <<1>>
    /\ Uids(drain_log[2]) = <<2>>

\* C7: push always returns to a running producer and is never made to
\* wait: it is enabled whatever the locks and the aggregation cycle are
\* doing; once the receiving side is gone the send fails, nothing is
\* queued and the producer carries on.
C7_PushNeverFails ==
    /\ [](producer = "running")
    /\ []((next_uid <= MaxEvents) => ENABLED Push)
    /\ [][(next_uid' # next_uid /\ ~db_alive) =>
            (last_push' = "Err" /\ channel' = channel /\ producer' = "running")]_vars

\* C7 witness: a push made after the Db was dropped failed to send and
\* the producer kept running.
C7_Witness ==
    /\ ~db_alive
    /\ last_push = "Err"
    /\ producer = "running"
    /\ channel = <<>>

\* C8: the drains, in cycle order, followed by the buffer are exactly the
\* events in the order collect appended them (each drain returns what was
\* collected since the previous one and leaves nothing of it behind), and
\* collect is never inside its critical section while the drain is.
C8_DrainAtomicSwap ==
    /\ Uids(Flatten(drain_log)) \o Uids(collected_metrics) = collect_log
    /\ ~(pc_agg = "replace" /\ pc_recv = "extend")
    /\ (pc_agg = "replace") = (buffer_lock = "agg")
    /\ (pc_recv = "extend") = (buffer_lock = "recv")

\* C8 witness: two separately collected events were drained together in
\* their order of arrival, leaving the buffer empty.
C8_Witness ==
    /\ Len(drain_log) = 1
    /\ Uids(drain_log[1]) = <<1, 2>>
    /\ Len(collect_log) = 2
    /\ collected_metrics = <<>>
    /\ pc_agg = "group"
    /\ next_uid = 3
    /\ last_push = "Ok"

\* C9: every change of the store appends exactly one (time, value) pair to
\* the end of one series, created if absent, and leaves every other series
\* and every earlier pair as it was.
C9_StoreAppendOnly ==
    [][aggregated_metrics' # aggregated_metrics =>
        \E key \in DOMAIN aggregated_metrics' :
            /\ DOMAIN aggregated_metrics' = (DOMAIN aggregated_metrics) \cup {key}
            /\ \A k \in DOMAIN aggregated_metrics :
                k # key => aggregated_metrics'[k] = aggregated_metrics[k]
            /\ aggregated_metrics'[key] =
                Append(IF key \in DOMAIN aggregated_metrics
                           THEN aggregated_metrics[key] ELSE <<>>,
                       <<now, Head(aggregated).value>>)
            /\ key = <<Head(aggregated).kind, Head(aggregated).id>>]_vars

\* C9 witness: a series holds two pairs next to another series.
C9_Witness ==
    /\ \E k \in DOMAIN aggregated_metrics : Len(aggregated_metrics[k]) = 2
    /\ Cardinality(DOMAIN aggregated_metrics) >= 2

\* C10: in every series the entries are in aggregation-cycle order: no
\* entry appended by a later cycle precedes one appended by an earlier one,
\* and the series and their cycle record have the same shape.
C10_StoreOrdering ==
    /\ DOMAIN series_cycle = DOMAIN aggregated_metrics
    /\ \A k \in DOMAIN series_cycle :
        /\ Len(series_cycle[k]) = Len(aggregated_metrics[k])
        /\ \A i, j \in 1..Len(series_cycle[k]) :
            i < j => series_cycle[k][i][1] <= series_cycle[k][j][1]
        /\ \A i \in 1..Len(series_cycle[k]) :
            series_cycle[k][i][2] = aggregated_metrics[k][i][2]

\* C10 witness: one series holds an entry of cycle 1 followed by an entry
\* of cycle 2.
C10_Witness ==
    \E k \in DOMAIN series_cycle :
        /\ Len(series_cycle[k]) = 2
        /\ series_cycle[k][1][1] = 1
        /\ series_cycle[k][2][1] = 2

\* The (kind, identifier) pairs occurring in input.
InputKeys == {<<input[i].kind, input[i].id>> : i \in 1..Len(input)}

\* The (timestamp, value) pairs of the input events of one group, in
\* arrival order.
InputPairs(kind, id) ==
    [i \in 1..Len(InputGroup(kind, id)) |->
        <<InputGroup(kind, id)[i].time, InputGroup(kind, id)[i].value>>]

\* The sum of the group sizes of a grouping.
RECURSIVE SizeSum(_, _)
SizeSum(map, keys) ==
    IF keys = {} THEN 0
    ELSE LET key == CHOOSE k \in keys : TRUE
         IN  Len(map[key]) + SizeSum(map, keys \ {key})

\* C16: group files every input event under exactly one key, the pair of
\* its kind and its identifier: the keys are the pairs occurring in the
\* input, every group has at least one value, the group sizes sum to the
\* number of input events, and a group lists the (timestamp, value) pairs
\* of its events in arrival order.  The grouping loop of Db::aggregate does
\* the same with the bare values.
C16_GroupPartition ==
    /\ pc_pure \in {"grouped", "done"} =>
        /\ DOMAIN grouped_metrics = InputKeys
        /\ \A key \in DOMAIN grouped_metrics :
            /\ Len(grouped_metrics[key]) >= 1
            /\ grouped_metrics[key] = InputPairs(key[1], key[2])
        /\ SizeSum(grouped_metrics, DOMAIN grouped_metrics) = Len(input)
    /\ pc_pure = "db_done" =>
        /\ DOMAIN DbGroup(input) = InputKeys
        /\ \A key \in DOMAIN DbGroup(input) :
            /\ Len(DbGroup(input)[key]) >= 1
            /\ DbGroup(input)[key] = InputValues(key[1], key[2])
        /\ SizeSum(DbGroup(input), DOMAIN DbGroup(input)) = Len(input)

\* C16 witness: two events of different kinds with the same identifier
\* were grouped into two groups of one value each.
C16_Witness ==
    /\ pc_pure = "grouped"
    /\ Len(input) = 2
    /\ input[1].id = input[2].id
    /\ input[1].kind # input[2].kind
    /\ Cardinality(DOMAIN grouped_metrics) = 2

\* The number of samples below x, and the number not above x.
CountBelow(x) == Cardinality({i \in 1..Len(samples) : samples[i] < x})

CountAtMost(x) == Cardinality({i \in 1..Len(samples) : samples[i] <= x})

\* x is the element at index k (from 0) of the samples sorted ascending:
\* it is a sample, at most k samples are below it and more than k are not
\* above it.  Stated on the samples as they arrived, so it does not depend
\* on their order.
IsKth(x, k) ==
    /\ \E i \in 1..Len(samples) : samples[i] = x
    /\ CountBelow(x) <= k
    /\ k < CountAtMost(x)

\* C17: for n >= 1 samples, Histogram::from returns as min, max, median,
\* 95th and 99th percentile the elements at indexes 0, n - 1, n div 2,
\* floor(n * 0.95) and floor(n * 0.99) of the samples sorted ascending,
\* whatever order the samples arrived in.
C17_OrderStatistics ==
    pc_hist = "done" =>
        LET n == Len(samples)
        IN  /\ IsKth(hist_out.min, 0)
            /\ IsKth(hist_out.max, n - 1)
            /\ IsKth(hist_out.median, n \div 2)
            /\ IsKth(hist_out.percentile95, (n * 95) \div 100)
            /\ IsKth(hist_out.percentile99, (n * 99) \div 100)

\* C17 witness: 21 distinct samples arrived out of order; the 95th
\* percentile is the second largest and the 99th the largest.
C17_Witness ==
    /\ pc_hist = "done"
    /\ Len(samples) = 21
    /\ samples[1] > samples[2]
    /\ samples[21] > samples[1]
    /\ hist_out.percentile95 < hist_out.percentile99
    /\ hist_out.median < hist_out.percentile95
    /\ hist_out.min < hist_out.median

\* C18: for every n >= 1 the indexes n div 2, floor(n * 0.95) and
\* floor(n * 0.99) are at most n - 1 and Histogram::from reads nothing past
\* the end of the sorted samples; for n = 1 all six statistics are the one
\* sample.
C18_IndexSafety ==
    pc_hist = "done" =>
        LET n == Len(samples)
        IN  /\ n \div 2 <= n - 1
            /\ PercentileIndex(n, 95) <= n - 1
            /\ PercentileIndex(n, 99) <= n - 1
            /\ ~hist_out.panicked
            /\ n = 1 =>
                /\ PercentileIndex(n, 95) = 0
                /\ PercentileIndex(n, 99) = 0
                /\ hist_out.min = samples[1]
                /\ hist_out.max = samples[1]
                /\ hist_out.median = samples[1]
                /\ hist_out.average = samples[1]
                /\ hist_out.percentile95 = samples[1]
                /\ hist_out.percentile99 = samples[1]

\* C18 witness: Histogram::from returned for a single sample.
C18_Witness ==
    /\ pc_hist = "done"
    /\ Len(samples) = 1
    /\ ~hist_out.panicked
    /\ hist_out.percentile99 = samples[1]

\* sum(samples) - average * n, exactly; within (-n, n) when the average is
\* the truncated mean.
AverageRemainder ==
    WideAdd(WideSum(samples),
            WideNeg(WideSum([i \in 1..Len(samples) |-> hist_out.average])))

\* C20: the average returned by Histogram::from is the exact mean of the
\* samples truncated toward zero: sum - average * n lies in [0, n) for a
\* sum >= 0 and in (-n, 0] for a sum <= 0, with the sum taken exactly, also
\* when it lies outside the i32 range.
C20_AverageTruncatedMean ==
    pc_hist = "done" =>
        LET n == Len(samples)
            sum == WideSum(samples)
            rem == AverageRemainder
        IN  /\ rem[1] \in {-1, 0}
            /\ sum[1] >= 0 => rem[1] = 0 /\ rem[2] < n
            /\ sum[1] < 0 => \/ rem = <<0, 0>>
                             \/ rem[1] = -1 /\ 65536 - rem[2] < n

\* C20 witness: the two samples i32::MIN + 1 and i32::MIN, whose i32 sum
\* overflows and whose mean -2147483647.5 truncates to -2147483647.
C20_Witness ==
    /\ pc_hist = "done"
    /\ samples = <<Int32Min + 1, Int32Min>>
    /\ FoldAdd(0, samples).overflowed
    /\ hist_out.average = -Int32Max

\* C22: for n >= 1 samples the statistics Histogram::from returns are
\* ordered: min <= median <= percentile95 <= percentile99 <= max, and
\* min <= average <= max.
C22_StatisticsOrdered ==
    (pc_hist = "done" /\ Len(samples) >= 1) =>
        /\ ~hist_out.panicked
        /\ hist_out.min <= hist_out.median
        /\ hist_out.median <= hist_out.percentile95
        /\ hist_out.percentile95 <= hist_out.percentile99
        /\ hist_out.percentile99 <= hist_out.max
        /\ hist_out.min <= hist_out.average
        /\ hist_out.average <= hist_out.max

\* C22 witness: 101 distinct samples arrived out of order, for which the
\* five order statistics are all different and the average lies strictly
\* between the extremes.
C22_Witness ==
    /\ pc_hist = "done"
    /\ Len(samples) = 101
    /\ samples[1] > samples[2]
    /\ hist_out.min < hist_out.median
    /\ hist_out.median < hist_out.percentile95
    /\ hist_out.percentile95 < hist_out.percentile99
    /\ hist_out.percentile99 < hist_out.max
    /\ hist_out.min < hist_out.average
    /\ hist_out.average < hist_out.max

\* The store keys of the aggregated metrics of the running cycle.
AggregatedKeys == [i \in 1..Len(aggregated) |-> IntoKeyValue(aggregated[i])[1]]

\* No element occurs twice in the sequence.
Distinct(s) == \A i, j \in 1..Len(s) : i # j => s[i] # s[j]

\* C21: within one aggregation cycle no two aggregated metrics have the
\* same (kind, identifier), and so no store series is appended to twice in
\* one cycle, also when a name derived from a Histogram coincides with a
\* name submitted directly (Histogram "lat" and Count "lat.count").
C21_OneEntryPerSeries ==
    /\ pc_agg = "storelock" => Distinct(AggregatedKeys)
    /\ \A key \in DOMAIN series_cycle : Distinct(series_cycle[key])

\* Some group of the grouping handed to the rollup has no values.
SomeGroupEmpty == \E key \in DOMAIN grouped_metrics : grouped_metrics[key] = <<>>

\* C19: when a group without values reaches a rollup, the rollup aborts:
\* neither aggregate nor the rollup loop of Db::aggregate returns from a
\* grouping that holds an empty group.
C19_EmptyGroupAborts ==
    /\ (pc_pure = "done" /\ SomeGroupEmpty) => output.panicked
    /\ (pc_pure = "db_done" /\ SomeGroupEmpty) => db_output.panicked

\* The aggregation cycles that drained no event.
EmptyCycles == {c \in 1..Len(drain_log) : drain_log[c] = <<>>}

\* C13: a cycle of Db::aggregate that drains no event appends no entry to
\* any series (and so creates no key), builds no group and no aggregated
\* metric, does not panic, and can always take its next step up to the
\* return; group and aggregate of db/aggregate.rs return an empty Vec for
\* an empty batch.
C13_EmptyCycle ==
    /\ \A c \in EmptyCycles : \A k \in DOMAIN series_cycle :
            \A i \in 1..Len(series_cycle[k]) : series_cycle[k][i][1] # c
    /\ cycle \in EmptyCycles =>
        /\ pc_agg # "panicked"
        /\ grouped = <<>>
        /\ aggregated = <<>>
        /\ pc_agg # "idle" =>
                ENABLED (AggregateGroup \/ AggregateRollup
                            \/ AggregateStoreLock \/ AggregateDone)
    /\ group(<<>>) = <<>>
    /\ aggregate(group(<<>>), <<>>).out = <<>>

\* C13 witness: the second cycle drained nothing and has returned, after
\* a first cycle that stored something.
C13_Witness ==
    /\ cycle = 2
    /\ pc_agg = "idle"
    /\ Len(drain_log) = 2
    /\ drain_log[1] # <<>>
    /\ drain_log[2] = <<>>
    /\ DOMAIN aggregated_metrics # {}

\* C15: Db::aggregate holds the buffer mutex only at the swap and the
\* store mutex only in the store loop, never both; while it groups, rolls
\* up, waits for the store mutex or stores, a collect waiting for the
\* buffer mutex can take it and a collect holding it can finish; and
\* neither thread ever waits for a mutex whose holder cannot move.
C15_LockDiscipline ==
    /\ ~(buffer_lock = "agg" /\ store_lock = "agg")
    /\ buffer_lock = "agg" <=> pc_agg = "replace"
    /\ store_lock = "agg" <=> pc_agg = "store"
    /\ (pc_recv = "collect" /\ pc_agg \in {"group", "rollup", "storelock", "store"})
            => ENABLED CollectLock
    /\ pc_recv = "extend" => ENABLED CollectExtend
    /\ (pc_recv = "collect" /\ buffer_lock # "free") => ENABLED AggregateReplace
    /\ (pc_agg = "lock" /\ buffer_lock # "free") => ENABLED CollectExtend
    /\ pc_agg = "storelock" => ENABLED AggregateStoreLock

\* C15 witness: collect holds the buffer mutex while the cycle is in its
\* store loop holding the store mutex.
C15_Witness ==
    /\ pc_recv = "extend"
    /\ buffer_lock = "recv"
    /\ pc_agg = "store"
    /\ store_lock = "agg"
    /\ aggregated # <<>>

\* A line of the grammar name:value|type[|@sample_rate].
WellFormed(line) == line.colon

\* The metric a well-formed line stands for.
ExpectedMetric(line) ==
    CASE line.type = <<"c">> ->
            [kind |-> "Counter", name |-> "a", value |-> line.value.milli,
             sample_rate |-> "None"]
      [] line.type = <<"g">> ->
            [kind |-> "Gauge", name |-> "a", value |-> line.value.milli]
      [] line.type = <<"m", "s">> ->
            [kind |-> "Timer", name |-> "a", value |-> line.value.milli,
             sample_rate |-> "None"]

\* C14: parse_metrics on k >= 1 well-formed lines joined by newlines
\* returns Ok with exactly k metrics, the i-th being the Counter, Gauge or
\* Timer of the i-th line with its name and value and no sample rate.
C14_ParseMetricsAllLines ==
    (pc_parse = "done" /\ \A i \in 1..Len(parse_in) : WellFormed(parse_in[i])) =>
        /\ parse_out.ok
        /\ parse_out.metrics = [i \in 1..Len(parse_in) |-> ExpectedMetric(parse_in[i])]

\* The lines of every text payload sent, in order.
RECURSIVE SentLines(_)
SentLines(payloads) ==
    IF payloads = <<>> THEN <<>>
    ELSE Head(payloads).lines \o SentLines(Tail(payloads))

\* The metrics of the well-formed lines among the lines sent.
ExpectedPushed ==
    LET wellFormed == SelectSeq(SentLines(sent), WellFormed)
    IN  [i \in 1..Len(wellFormed) |-> ExpectedMetric(wellFormed[i])]

\* Nothing is left to read or to parse, or nothing more will be read.
ListenerQuiet ==
    /\ line_channel = <<>>
    /\ wire = <<>> \/ socket_thread # "running"

\* C11: malformed input never ends the socket thread of a listener, and
\* once everything sent has been handled (with no I/O error) the metrics
\* pushed to the collector are those of all the well-formed lines sent, in
\* order: a malformed line costs only itself.
C11_ParseFailuresContained ==
    /\ socket_thread # "exited"
    /\ (ListenerQuiet /\ socket_thread # "failed") => Flatten(channel) = ExpectedPushed

\* The subscriber can take one more batch: it is connected and its channel
\* is not full.
CanAccept(subscriber) == subscriber.connected /\ Len(subscriber.queue) < Capacity

\* C12: a publish puts the batch at the end of the channel of every
\* registered subscriber that can accept it and leaves the channels of the
\* others (full, never read or disconnected) as they are, whatever the
\* state of the other subscribers; and the scheduler can always publish,
\* whatever the state of the subscribers.
C12_FanOutIsolation ==
    /\ [][published' = published + 1 =>
            /\ Len(subscribers') = Len(subscribers)
            /\ \A i \in DOMAIN subscribers :
                subscribers'[i].queue =
                    IF CanAccept(subscribers[i])
                        THEN Append(subscribers[i].queue, published')
                        ELSE subscribers[i].queue]_vars
    /\ [](published < MaxPublishes => ENABLED Publish)

\* C12 witness: the first subscriber never read and still holds batch 1
\* in its full channel; the second, registered after it, holds batch 3.
C12_Witness ==
    /\ published = 3
    /\ Len(subscribers) = 2
    /\ subscribers[1].queue = <<1>>
    /\ subscribers[2].queue = <<3>>

====
